---- MODULE Spec2Model ----
(***************************************************************************)
(* A model of examples/cmd.rs of surge-ping: the ping command's main loop  *)
(* (main), its accumulator (Answer) and the summary it prints              *)
(* (Answer::output).                                                       *)
(*                                                                         *)
(* main is one task; every .await and every call that can panic is a step. *)
(* The echo transport (surge_ping::Pinger), the interval timer and the     *)
(* resolver are the environment: their outcomes are chosen with \E.        *)
(***************************************************************************)
EXTENDS Integers, Sequences, FiniteSets, TLC

\* ---------------------------------------------------------------- bounds
\* The largest value given to the -c option.
MaxCount == 4

\* The number of distinct round-trip times the transport reports.
MaxDur == 2

\* ------------------------------------------------------ program constants
\* #[structopt(short = "c", long, default_value = "5")] count: u16
DefaultCount == 5

\* ------------------------------------------------------------- the inputs
\* The -c option as given on the command line: absent, or a number.
NotSpecified == -1

CountArgs == {NotSpecified} \cup (0..MaxCount)

\* A Duration is its length in nanoseconds.
NanosPerMilli == 1000000

\* The round-trip times the transport reports: 15 ms, 25 ms, ...
Durations == {(10 * i + 5) * NanosPerMilli : i \in 1..MaxDur}

\* Why an attempt failed: the per-attempt timeout set by pinger.timeout, or
\* an error of the transport.
Failures == {"timeout", "io"}

\* The period handed to time::interval, in milliseconds.
Periods == {0, 1000}

VARIABLES
    pc,        \* where main is
    ipv6,      \* ip.is_ipv6(), which selects ICMP::V6 for the client
    countArg,  \* the -c option as given (NotSpecified when absent)
    count,     \* opt.count, as parsed by structopt
    next,      \* the start of the Range 0..opt.count still to be iterated
    idx,       \* the loop variable
    answer,    \* the accumulator, an Answer
    issued,    \* the PingSequence numbers handed to pinger.ping, in order
    inflight,  \* the sequence numbers of the requests not yet resolved
    ticks,     \* the number of interval.tick() calls that returned
    out        \* the lines printed so far

vars == <<pc, ipv6, countArg, count, next, idx, answer, issued, inflight, ticks, out>>

\* ------------------------------------------------------------ struct Opt
\* opt.count: the default applies when the option is absent.
OptCount(arg) == IF arg = NotSpecified THEN DefaultCount ELSE arg

\* ------------------------------------------------- natural numbers, any size
\* A natural number as the sequence of its digits in base LimbBase, the
\* least significant first, with no leading zero digit (<<>> is 0): the
\* integers of the model are 32 bits wide, an f64 mantissa is 53.
LimbBits == 10

LimbBase == 2 ^ LimbBits

BNorm(a) ==
    LET top == {i \in 1..Len(a) : a[i] # 0}
    IN  IF top = {} THEN <<>>
        ELSE SubSeq(a, 1, CHOOSE i \in top : \A j \in top : j <= i)

RECURSIVE BFromInt(_)
BFromInt(n) ==
    IF n = 0 THEN <<>> ELSE <<n % LimbBase>> \o BFromInt(n \div LimbBase)

RECURSIVE BToInt(_)
BToInt(a) ==
    IF a = <<>> THEN 0 ELSE a[1] + LimbBase * BToInt(Tail(a))

Limb(a, i) == IF i <= Len(a) THEN a[i] ELSE 0

RECURSIVE BAddFrom(_, _, _, _)
BAddFrom(a, b, i, carry) ==
    IF i > Len(a) /\ i > Len(b)
    THEN IF carry = 0 THEN <<>> ELSE <<carry>>
    ELSE LET t == Limb(a, i) + Limb(b, i) + carry
         IN  <<t % LimbBase>> \o BAddFrom(a, b, i + 1, t \div LimbBase)

BAdd(a, b) == BAddFrom(a, b, 1, 0)

RECURSIVE BSubFrom(_, _, _, _)
BSubFrom(a, b, i, borrow) ==
    IF i > Len(a)
    THEN <<>>
    ELSE LET t == a[i] - Limb(b, i) - borrow
         IN  IF t < 0
             THEN <<t + LimbBase>> \o BSubFrom(a, b, i + 1, 1)
             ELSE <<t>> \o BSubFrom(a, b, i + 1, 0)

\* a - b, for a >= b.
BSub(a, b) == BNorm(BSubFrom(a, b, 1, 0))

\* -1, 0 or 1 as a is below, equal to or above b.
BCmp(a, b) ==
    IF Len(a) # Len(b)
    THEN IF Len(a) < Len(b) THEN -1 ELSE 1
    ELSE LET diff == {i \in 1..Len(a) : a[i] # b[i]}
         IN  IF diff = {} THEN 0
             ELSE LET i == CHOOSE k \in diff : \A j \in diff : j <= k
                  IN  IF a[i] < b[i] THEN -1 ELSE 1

RECURSIVE BMulSmallFrom(_, _, _, _)
BMulSmallFrom(a, k, i, carry) ==
    IF i > Len(a)
    THEN BFromInt(carry)
    ELSE LET t == a[i] * k + carry
         IN  <<t % LimbBase>> \o BMulSmallFrom(a, k, i + 1, t \div LimbBase)

\* a * k, for k below 2^20.
BMulSmall(a, k) == IF k = 0 THEN <<>> ELSE BMulSmallFrom(a, k, 1, 0)

RECURSIVE BMulFrom(_, _, _)
BMulFrom(a, b, i) ==
    IF i > Len(b)
    THEN <<>>
    ELSE BAdd(BMulSmall(a, b[i]), BNorm(<<0>> \o BMulFrom(a, b, i + 1)))

BMul(a, b) == IF a = <<>> THEN <<>> ELSE BMulFrom(a, b, 1)

RECURSIVE BDivSmallFrom(_, _, _, _)
BDivSmallFrom(a, d, i, r) ==
    IF i = 0
    THEN <<<<>>, r>>
    ELSE LET cur == r * LimbBase + a[i]
             rest == BDivSmallFrom(a, d, i - 1, cur % d)
         IN  <<Append(rest[1], cur \div d), rest[2]>>

\* <<a \div d, a % d>>, for d below 2^21.
BDivSmall(a, d) ==
    LET qr == BDivSmallFrom(a, d, Len(a), 0)
    IN  <<BNorm(qr[1]), qr[2]>>

RECURSIVE IntBitLen(_)
IntBitLen(n) == IF n = 0 THEN 0 ELSE 1 + IntBitLen(n \div 2)

BBitLen(a) ==
    IF a = <<>> THEN 0 ELSE LimbBits * (Len(a) - 1) + IntBitLen(a[Len(a)])

\* Bit i of a, bit 0 the least significant.
BBit(a, i) == (Limb(a, i \div LimbBits + 1) \div 2 ^ (i % LimbBits)) % 2

\* Whether one of the n lowest bits of a is set.
BLowNonZero(a, n) ==
    \/ \E j \in 1..(n \div LimbBits) : Limb(a, j) # 0
    \/ Limb(a, n \div LimbBits + 1) % 2 ^ (n % LimbBits) # 0

\* a * 2^n
BShl(a, n) ==
    IF a = <<>> THEN <<>>
    ELSE [j \in 1..(n \div LimbBits) |-> 0] \o BMulSmall(a, 2 ^ (n % LimbBits))

\* a \div 2^n
BShr(a, n) ==
    IF n \div LimbBits >= Len(a) THEN <<>>
    ELSE BDivSmall(SubSeq(a, n \div LimbBits + 1, Len(a)), 2 ^ (n % LimbBits))[1]

\* a as an odd number times a power of two: <<odd, exponent>>; a > 0.
BOddPart(a) ==
    LET z == CHOOSE n \in 0..BBitLen(a) :
                 BBit(a, n) = 1 /\ ~BLowNonZero(a, n)
    IN  <<BShr(a, z), z>>

\* Whether (t + d) * d <= m, for t, d and m small enough for m to be
\* below 2^31.
SqrtDigitFits(t, d, m) == d = 0 \/ d <= m \div (t + d)

\* The largest d, at most est, with (2 * r * LimbBase + d) * d <= m; r > 0.
RECURSIVE BSqrtDigitDown(_, _, _)
BSqrtDigitDown(r, m, est) ==
    IF BCmp(BMulSmall(<<est>> \o BMulSmall(r, 2), est), m) <= 0
    THEN est
    ELSE BSqrtDigitDown(r, m, est - 1)

\* The next digit of a square root: the largest d below LimbBase with
\* (2 * r * LimbBase + d) * d <= m, for r the root so far and m the
\* remainder so far followed by the next two digits of the radicand
\* (m < (2 * r + 1) * LimbBase^2). With r of two digits or more the
\* quotient of the leading bits of m and of 2 * r * LimbBase is at least d.
BSqrtDigit(r, m) ==
    IF Len(r) <= 1
    THEN LET t == 2 * LimbBase * BToInt(r)
             v == BToInt(m)
         IN  CHOOSE d \in 0..(LimbBase - 1) :
                 /\ SqrtDigitFits(t, d, v)
                 /\ d = LimbBase - 1 \/ ~SqrtDigitFits(t, d + 1, v)
    ELSE LET t == <<0>> \o BMulSmall(r, 2)
             s == BBitLen(t) - 2 * LimbBits
             est == BToInt(BShr(m, s)) \div BToInt(BShr(t, s))
         IN  BSqrtDigitDown(r, m, IF est > LimbBase - 1 THEN LimbBase - 1 ELSE est)

\* The square root of n digit by digit, two digits of n for one of the
\* root, from pair j of n down: r is the root of the digits above, m what
\* they leave.
RECURSIVE BSqrtFrom(_, _, _, _)
BSqrtFrom(n, j, r, m) ==
    IF j = 0
    THEN <<r, m>>
    ELSE LET m2 == BNorm(<<Limb(n, 2 * j - 1), Limb(n, 2 * j)>> \o m)
             d == BSqrtDigit(r, m2)
             td == IF r = <<>> THEN BFromInt(d) ELSE <<d>> \o BMulSmall(r, 2)
         IN  BSqrtFrom(n, j - 1,
                       IF r = <<>> THEN BFromInt(d) ELSE <<d>> \o r,
                       BSub(m2, BMulSmall(td, d)))

\* <<r, n - r * r>> for r the integer square root of n.
BSqrt(n) == BSqrtFrom(n, (Len(n) + 1) \div 2, <<>>, <<>>)

\* ------------------------------------------------------------------- f64
\* An f64 is NaN or (-1)^neg * m * 2^e with m = 0 or 2^52 <= m < 2^53. The
\* values of this program stay far from the subnormals and from infinity.
MantissaBits == 53

NaN == [nan |-> TRUE, neg |-> FALSE, m |-> <<>>, e |-> 0]

\* The f64 nearest to (-1)^neg * (m + s) * 2^e, ties to even, where s is 0,
\* or if sticky some fraction strictly between 0 and 1.
FRound(neg, m, e, sticky) ==
    LET len == BBitLen(m)
        drop == len - MantissaBits
    IN  IF m = <<>>
        THEN [nan |-> FALSE, neg |-> neg, m |-> <<>>, e |-> 0]
        ELSE IF drop <= 0
        THEN [nan |-> FALSE, neg |-> neg, m |-> BShl(m, 0 - drop), e |-> e + drop]
        ELSE LET q == BShr(m, drop)
                 half == BBit(m, drop - 1) = 1
                 rest == sticky \/ BLowNonZero(m, drop - 1)
                 up == half /\ (rest \/ BBit(q, 0) = 1)
                 r == IF up THEN BAdd(q, <<1>>) ELSE q
             IN  IF BBitLen(r) > MantissaBits
                 THEN [nan |-> FALSE, neg |-> neg, m |-> BShr(r, 1), e |-> e + drop + 1]
                 ELSE [nan |-> FALSE, neg |-> neg, m |-> r, e |-> e + drop]

\* n as f64, for an integer n >= 0.
FFromInt(n) == FRound(FALSE, BFromInt(n), 0, FALSE)

\* x * y
FMul(x, y) == FRound(x.neg # y.neg, BMul(x.m, y.m), x.e + y.e, FALSE)

\* x + y
FAdd(x, y) ==
    IF x.m = <<>> THEN y
    ELSE IF y.m = <<>> THEN x
    ELSE LET e == IF x.e < y.e THEN x.e ELSE y.e
             a == BShl(x.m, x.e - e)
             b == BShl(y.m, y.e - e)
             c == BCmp(a, b)
         IN  IF x.neg = y.neg THEN FRound(x.neg, BAdd(a, b), e, FALSE)
             ELSE IF c = 0 THEN FRound(FALSE, <<>>, 0, FALSE)
             ELSE IF c > 0 THEN FRound(x.neg, BSub(a, b), e, FALSE)
             ELSE FRound(y.neg, BSub(b, a), e, FALSE)

\* x - y
FSub(x, y) == FAdd(x, [y EXCEPT !.neg = ~y.neg])

\* x <= y, for x and y not NaN.
FLe(x, y) ==
    LET d == FSub(x, y)
    IN  d.m = <<>> \/ d.neg

\* x / y, for y an integer whose odd part is below 2^21 (such as 1e9 and
\* the length of a log).
FDiv(x, y) ==
    LET odd == BOddPart(y.m)
        qr == BDivSmall(BShl(x.m, 24), BToInt(odd[1]))
    IN  FRound(x.neg # y.neg, qr[1], x.e - 24 - (y.e + odd[2]), qr[2] # 0)

\* x.sqrt()
FSqrt(x) ==
    IF x.nan \/ (x.neg /\ x.m # <<>>) THEN NaN
    ELSE IF x.m = <<>> THEN x
    ELSE LET k == IF (x.e - 56) % 2 = 0 THEN 56 ELSE 57
             rr == BSqrt(BShl(x.m, k))
         IN  FRound(FALSE, rr[1], (x.e - k) \div 2, rr[2] # <<>>)

\* x as "{:.3}" prints it, in thousandths; x is NaN or not negative.
FFormat3(x) ==
    IF x.nan THEN [class |-> "nan", thousandths |-> 0]
    ELSE LET n == BMulSmall(x.m, 1000)
         IN  IF x.e >= 0
             THEN [class |-> "finite", thousandths |-> BToInt(BShl(n, x.e))]
             ELSE LET drop == 0 - x.e
                      q == BShr(n, drop)
                      half == BBit(n, drop - 1) = 1
                      rest == BLowNonZero(n, drop - 1)
                      up == half /\ (rest \/ BBit(q, 0) = 1)
                  IN  [class |-> "finite",
                       thousandths |-> BToInt(q) + (IF up THEN 1 ELSE 0)]

\* ------------------------------------------------------------ impl Answer
AnswerNew(host) ==
    [host |-> host, transmitted |-> 0, received |-> 0, durations |-> <<>>]

\* A recorder that counts a failed attempt as received.
UpdateCountsFailure(a, dur) ==
    IF dur # 0
    THEN [a EXCEPT !.transmitted = @ + 1,
                   !.received = @ + 1,
                   !.durations = Append(@, dur)]
    ELSE [a EXCEPT !.transmitted = @ + 1, !.received = @ + 1]

\* A recorder that counts transmitted only for failures.
UpdateReceivedOnly(a, dur) ==
    IF dur # 0
    THEN [a EXCEPT !.received = @ + 1,
                   !.durations = Append(@, dur)]
    ELSE [a EXCEPT !.transmitted = @ + 1]

\* A recorder that puts the newest latency first.
UpdatePrepends(a, dur) ==
    IF dur # 0
    THEN [a EXCEPT !.transmitted = @ + 1,
                   !.received = @ + 1,
                   !.durations = <<dur>> \o @]
    ELSE [a EXCEPT !.transmitted = @ + 1]

\* Answer::update; dur = 0 stands for None, a positive dur for Some(dur).
Update(a, dur) ==
    IF dur # 0
    THEN [a EXCEPT !.transmitted = @ + 1,
                   !.received = @ + 1,
                   !.durations = Append(@, dur)]
    ELSE [a EXCEPT !.transmitted = @ + 1]

\* The quotient n / d rounded to the nearest integer, halves to even.
RoundHalfEven(n, d) ==
    LET q == n \div d
        r == n % d
    IN  IF 2 * r > d \/ (2 * r = d /\ q % 2 = 1) THEN q + 1 ELSE q

\* The loss computed on integers before the conversion to f64.
LossPercentIntegerDivision(transmitted, received) ==
    IF transmitted = 0
    THEN [class |-> "nan", hundredths |-> 0]
    ELSE [class |-> "finite",
          hundredths |-> ((transmitted - received) \div transmitted) * 10000]

\* (self.transmitted - self.received) as f64 / self.transmitted as f64 * 100_f64
\* as "{:.2}" prints it: the number of hundredths of a percent. The f64
\* quotient 0.0 / 0.0 is NaN (no trap), printed as "NaN". For transmitted
\* below 160 the f64 result rounds to the same two decimals as the exact
\* quotient.
LossPercent(transmitted, received) ==
    IF transmitted = 0
    THEN [class |-> "nan", hundredths |-> 0]
    ELSE [class |-> "finite",
          hundredths |-> RoundHalfEven((transmitted - received) * 10000, transmitted)]

\* The gate of the latency line with >= in place of >.
RttGateAtLeastOne(a) == a.received >= 1

\* A gate that lets every log through.
RttGateAlways(a) == a.received >= 0

\* if self.received > 1
RttGate(a) == a.received > 1

\* --------------------------------------------------- Option<f64>, Duration
None == [some |-> FALSE, val |-> NaN]

Some(v) == [some |-> TRUE, val |-> v]

NanosPerSec == 1000000000

\* Duration::as_secs_f64: (secs as f64) + (nanos as f64) / (NANOS_PER_SEC as f64)
AsSecsF64(dur) ==
    FAdd(FFromInt(dur \div NanosPerSec),
         FDiv(FFromInt(dur % NanosPerSec), FFromInt(NanosPerSec)))

\* dur.as_secs_f64() * 1000f64
AsMillis(dur) == FMul(AsSecsF64(dur), FFromInt(1000))

RECURSIVE DurationSum(_)
DurationSum(durations) ==
    IF durations = <<>> THEN 0 ELSE Head(durations) + DurationSum(Tail(durations))

\* Duration::checked_div(rhs): None for rhs = 0, else the quotient cut to
\* whole nanoseconds.
CheckedDiv(dur, rhs) ==
    IF rhs = 0 THEN [some |-> FALSE, val |-> 0]
    ELSE [some |-> TRUE, val |-> dur \div rhs]

Range(s) == {s[i] : i \in 1..Len(s)}

\* Answer::min
Min(a) ==
    IF a.durations = <<>> THEN None
    ELSE Some(AsMillis(CHOOSE d \in Range(a.durations) :
                           \A o \in Range(a.durations) : d <= o))

\* Answer::max
Max(a) ==
    IF a.durations = <<>> THEN None
    ELSE Some(AsMillis(CHOOSE d \in Range(a.durations) :
                           \A o \in Range(a.durations) : d >= o))

\* An average that takes the quotient of an empty log for zero.
AvgOfEmptyIsZero(a) ==
    LET sum == DurationSum(a.durations)
        avg == CheckedDiv(sum, Len(a.durations))
    IN  IF avg.some THEN Some(AsMillis(avg.val)) ELSE Some(FFromInt(0))

\* Answer::avg
Avg(a) ==
    LET sum == DurationSum(a.durations)
        avg == CheckedDiv(sum, Len(a.durations))
    IN  IF avg.some THEN Some(AsMillis(avg.val)) ELSE None

\* durations.iter().fold(acc, |acc, x| acc + x.as_secs_f64() * x.as_secs_f64() * 1000000f64)
RECURSIVE FoldSquares(_, _)
FoldSquares(acc, durations) ==
    IF durations = <<>> THEN acc
    ELSE LET x == AsSecsF64(Head(durations))
         IN  FoldSquares(FAdd(acc, FMul(FMul(x, x), FFromInt(1000000))),
                         Tail(durations))

\* let tmdev = tmp_sum / self.durations.iter().len() as f64 - avg * avg
Tmdev(a, avg) ==
    LET tmp_sum == FoldSquares(FFromInt(0), a.durations)
    IN  FSub(FDiv(tmp_sum, FFromInt(Len(a.durations))), FMul(avg, avg))

\* Answer::mdev
Mdev(a) ==
    LET avg == Avg(a)
    IN  IF avg.some THEN Some(FSqrt(Tmdev(a, avg.val))) ELSE None

\* The lines Answer::output prints: the header, the counts and the loss,
\* and, behind the gate, the round-trip line with the four statistics as
\* "{:.3}" prints them. A line of kind "panic" ends the output where the
\* code panics: self.transmitted - self.received below zero (the overflow
\* check of a debug build), and .unwrap() of a None behind the gate.
OutputLines(a) ==
    LET header == [kind |-> "header", host |-> a.host]
        stats == [kind |-> "stats", transmitted |-> a.transmitted,
                  received |-> a.received,
                  loss |-> LossPercent(a.transmitted, a.received)]
        panic == [kind |-> "panic"]
        min == Min(a)
        avg == Avg(a)
        max == Max(a)
        mdev == Mdev(a)
    IN  IF a.transmitted < a.received
        THEN <<header, panic>>
        ELSE IF ~RttGate(a)
        THEN <<header, stats>>
        ELSE IF min.some /\ avg.some /\ max.some /\ mdev.some
        THEN <<header, stats,
               [kind |-> "rtt",
                min |-> FFormat3(min.val), avg |-> FFormat3(avg.val),
                max |-> FFormat3(max.val), mdev |-> FFormat3(mdev.val)]>>
        ELSE <<header, stats, panic>>

\* ----------------------------------------------------------------- main
Init ==
    /\ pc = "lookup"
    /\ ipv6 = FALSE
    /\ countArg \in CountArgs
    /\ count = OptCount(countArg)
    /\ next = 0
    /\ idx = 0
    /\ answer = AnswerNew("host")
    /\ issued = <<>>
    /\ inflight = {}
    /\ ticks = 0
    /\ out = <<>>

\* lookup_host(..).await.expect(..).next().map(..).unwrap(): a resolver
\* error and an empty address list both panic; otherwise ip is the first
\* address, of either family.
Lookup ==
    /\ pc = "lookup"
    /\ \E res \in {"v4", "v6", "error", "empty"} :
         /\ pc' = IF res \in {"v4", "v6"} THEN "interval" ELSE "panicked"
         /\ ipv6' = (res = "v6")
    /\ UNCHANGED <<countArg, count, next, idx, answer, issued, inflight, ticks, out>>

\* time::interval(period) panics when the period is zero.
MkInterval ==
    /\ pc = "interval"
    /\ \E period \in Periods :
         pc' = IF period = 0 THEN "panicked" ELSE "client"
    /\ UNCHANGED <<ipv6, countArg, count, next, idx, answer, issued, inflight, ticks, out>>

\* A client whose construction error ends the run through the summary.
NewClientFailureSummarises ==
    /\ pc = "client"
    /\ \E ok \in BOOLEAN :
         pc' = IF ok THEN "banner" ELSE "output"
    /\ UNCHANGED <<ipv6, countArg, count, next, idx, answer, issued, inflight, ticks, out>>

\* Client::new(&config).unwrap(), client.pinger(..).await, pinger.timeout(..)
NewClient ==
    /\ pc = "client"
    /\ \E ok \in BOOLEAN :
         pc' = IF ok THEN "banner" ELSE "panicked"
    /\ UNCHANGED <<ipv6, countArg, count, next, idx, answer, issued, inflight, ticks, out>>

\* let mut answer = Answer::new(&opt.host); println!("PING ...")
Banner ==
    /\ pc = "banner"
    /\ answer' = AnswerNew("host")
    /\ out' = Append(out, [kind |-> "ping"])
    /\ pc' = "for"
    /\ UNCHANGED <<ipv6, countArg, count, next, idx, issued, inflight, ticks>>

\* A loop over 0..=opt.count.
ForNextInclusive ==
    /\ pc = "for"
    /\ IF next <= count
       THEN /\ idx' = next
            /\ next' = next + 1
            /\ pc' = "tick"
       ELSE /\ pc' = "output"
            /\ UNCHANGED <<idx, next>>
    /\ UNCHANGED <<ipv6, countArg, count, answer, issued, inflight, ticks, out>>

\* for idx in 0..opt.count: the next element of the range, or the end of
\* the loop.
ForNext ==
    /\ pc = "for"
    /\ IF next < count
       THEN /\ idx' = next
            /\ next' = next + 1
            /\ pc' = "tick"
       ELSE /\ pc' = "output"
            /\ UNCHANGED <<idx, next>>
    /\ UNCHANGED <<ipv6, countArg, count, answer, issued, inflight, ticks, out>>

\* interval.tick().await returns.
Tick ==
    /\ pc = "tick"
    /\ ticks' = ticks + 1
    /\ pc' = "send"
    /\ UNCHANGED <<ipv6, countArg, count, next, idx, answer, issued, inflight, out>>

\* The request sent from a spawned task: main does not wait for it.
PingSendSpawned ==
    /\ pc = "send"
    /\ issued' = Append(issued, idx)
    /\ inflight' = inflight \cup {idx}
    /\ pc' = "for"
    /\ UNCHANGED <<ipv6, countArg, count, next, idx, answer, ticks, out>>

\* pinger.ping(PingSequence(idx), &payload) is called and awaited.
PingSend ==
    /\ pc = "send"
    /\ issued' = Append(issued, idx)
    /\ inflight' = inflight \cup {idx}
    /\ pc' = "wait"
    /\ UNCHANGED <<ipv6, countArg, count, next, idx, answer, ticks, out>>

\* An Ok arm that prints the reply and forgets to record it.
PingOkSkipsUpdate ==
    /\ pc = "wait"
    /\ \E dur \in Durations :
         out' = Append(out, [kind |-> "reply",
                             version |-> IF ipv6 THEN "V6" ELSE "V4",
                             seq |-> idx, dur |-> dur])
    /\ inflight' = inflight \ {idx}
    /\ pc' = "for"
    /\ UNCHANGED <<ipv6, countArg, count, next, idx, answer, issued, ticks>>

\* Ok((IcmpPacket::V4(reply), dur)) and Ok((IcmpPacket::V6(reply), dur)):
\* the reply's line, then answer.update(Some(dur)). The client built with
\* ICMP::V6 (ip.is_ipv6()) decodes V6 replies, the default one V4 replies.
PingOk ==
    /\ pc = "wait"
    /\ \E dur \in Durations :
         /\ out' = Append(out, [kind |-> "reply",
                                version |-> IF ipv6 THEN "V6" ELSE "V4",
                                seq |-> idx, dur |-> dur])
         /\ answer' = Update(answer, dur)
    /\ inflight' = inflight \ {idx}
    /\ pc' = "for"
    /\ UNCHANGED <<ipv6, countArg, count, next, idx, issued, ticks>>

\* An Err arm that propagates the error instead of recording it.
PingErrAborts ==
    /\ pc = "wait"
    /\ \E e \in Failures :
         out' = Append(out, [kind |-> "error", seq |-> idx, reason |-> e])
    /\ inflight' = inflight \ {idx}
    /\ pc' = "panicked"
    /\ UNCHANGED <<ipv6, countArg, count, next, idx, answer, issued, ticks>>

\* An Err arm that makes the loop try the same sequence number again.
PingErrRetries ==
    /\ pc = "wait"
    /\ \E e \in Failures :
         out' = Append(out, [kind |-> "error", seq |-> idx, reason |-> e])
    /\ answer' = Update(answer, 0)
    /\ inflight' = inflight \ {idx}
    /\ next' = idx
    /\ pc' = "for"
    /\ UNCHANGED <<ipv6, countArg, count, idx, issued, ticks>>

\* An Err arm that prints the error and forgets to record it.
PingErrSkipsUpdate ==
    /\ pc = "wait"
    /\ \E e \in Failures :
         out' = Append(out, [kind |-> "error", seq |-> idx, reason |-> e])
    /\ inflight' = inflight \ {idx}
    /\ pc' = "for"
    /\ UNCHANGED <<ipv6, countArg, count, next, idx, answer, issued, ticks>>

\* Err(e): the error's line, then answer.update(None).
PingErr ==
    /\ pc = "wait"
    /\ \E e \in Failures :
         out' = Append(out, [kind |-> "error", seq |-> idx, reason |-> e])
    /\ answer' = Update(answer, 0)
    /\ inflight' = inflight \ {idx}
    /\ pc' = "for"
    /\ UNCHANGED <<ipv6, countArg, count, next, idx, issued, ticks>>

\* answer.output(), then main returns; a panic in output ends main there.
Output ==
    /\ pc = "output"
    /\ out' = out \o OutputLines(answer)
    /\ pc' = IF out'[Len(out')].kind = "panic" THEN "panicked" ELSE "done"
    /\ UNCHANGED <<ipv6, countArg, count, next, idx, answer, issued, inflight, ticks>>

\* The operator's interrupt (SIGINT). main installs no handler, so the
\* signal's default disposition ends the process where it is.
Interrupt ==
    /\ pc \notin {"done", "panicked", "killed"}
    /\ pc' = "killed"
    /\ UNCHANGED <<ipv6, countArg, count, next, idx, answer, issued, inflight, ticks, out>>

Main ==
    \/ Lookup
    \/ MkInterval
    \/ NewClient
    \/ Banner
    \/ ForNext
    \/ Tick
    \/ PingSend
    \/ PingOk
    \/ PingErr
    \/ Output

Next ==
    \/ Main
    \/ Interrupt

Spec == Init /\ [][Next]_vars

\* Where main can be while it runs.
Running ==
    {"lookup", "interval", "client", "banner", "for", "tick", "send", "wait",
     "output"}

\* A step of main, told by the position alone: every action of Main moves
\* pc to another position of main or to its end, Interrupt moves it to
\* "killed", and one action of Main is enabled at every position of
\* Running. Under Spec the steps of MainStep are the steps of Main, and
\* MainStep is enabled where Main is; every such step changes pc, which is
\* the subscript of the fairness condition.
MainStep ==
    /\ pc \in Running
    /\ pc' \in (Running \cup {"done", "panicked"}) \ {pc}

\* The runtime keeps polling main, the timer fires and the transport
\* resolves every request within the timeout: main's steps are taken.
\* Nothing obliges the operator to interrupt.
FairSpec == Spec /\ WF_pc(MainStep)

\* ------------------------------------------------- the summary of any run
\* The largest number of attempts of the runs whose summary StatsSpec takes.
MaxLog == 3

\* The round-trip times of those runs, in milliseconds.
StatMillis == {9, 10, 15, 20, 25, 30}

\* A finished run as the outcomes of its attempts, in order: the round-trip
\* time of an answered attempt, 0 for a failed one.
Runs ==
    UNION {[1..n -> {ms * NanosPerMilli : ms \in StatMillis} \cup {0}] : n \in 0..MaxLog}

\* The accumulator after the loop has recorded the run.
RECURSIVE AnswerAfter(_)
AnswerAfter(run) ==
    IF run = <<>>
    THEN AnswerNew("host")
    ELSE Update(AnswerAfter(SubSeq(run, 1, Len(run) - 1)), run[Len(run)])

\* The lines the loop has printed for the run.
OutAfter(run) ==
    <<[kind |-> "ping"]>>
    \o [i \in 1..Len(run) |->
           IF run[i] # 0
           THEN [kind |-> "reply", version |-> "V4", seq |-> i - 1, dur |-> run[i]]
           ELSE [kind |-> "error", seq |-> i - 1, reason |-> "timeout"]]

\* main at answer.output(), after a loop of Len(run) attempts with the
\* outcomes of run.
StatsInit ==
    \E run \in Runs :
        /\ pc = "output"
        /\ ipv6 = FALSE
        /\ countArg = Len(run)
        /\ count = Len(run)
        /\ next = Len(run)
        /\ idx = IF run = <<>> THEN 0 ELSE Len(run) - 1
        /\ answer = AnswerAfter(run)
        /\ issued = [i \in 1..Len(run) |-> i - 1]
        /\ inflight = {}
        /\ ticks = Len(run)
        /\ out = OutAfter(run)

StatsNext == Output

StatsSpec == StatsInit /\ [][StatsNext]_vars

\* ------------------------------------------------------------ properties
\* The largest sequence number a run of the model can issue, plus one.
MaxAttempts == IF MaxCount > DefaultCount THEN MaxCount ELSE DefaultCount

\* The lines of the given kind printed so far.
LinesOf(kind) == {i \in 1..Len(out) : out[i].kind = kind}

Summaries == Cardinality(LinesOf("stats"))

\* The run was interrupted while main was suspended in the loop: in
\* interval.tick() (the range has yielded one more number than ticks have
\* returned) or in pinger.ping() (a request is in flight).
KilledWhileRunning ==
    /\ pc = "killed"
    /\ (next = ticks + 1 \/ inflight # {})

\* C1: in every reachable state, also of a run cut short, received <=
\* transmitted and the number of recorded latencies equals received.
C1_ReceivedWithinTransmitted ==
    /\ answer.received <= answer.transmitted
    /\ Len(answer.durations) = answer.received

\* A run cut short after both a reply and a failure were recorded.
C1_Witness ==
    /\ KilledWhileRunning
    /\ answer.received >= 1
    /\ answer.received < answer.transmitted

\* C2: the sequence numbers handed to the transport are 0, 1, 2, ... in that
\* order, with no repeat and no gap, and a run that finishes has issued
\* exactly 0 .. count-1.
C2_SequenceNumbers ==
    /\ issued = [i \in 1..Len(issued) |-> i - 1]
    /\ Len(issued) <= count
    /\ pc = "done" => Len(issued) = count

\* A finished run of at least three attempts whose first attempt failed.
C2_Witness ==
    /\ pc = "done"
    /\ count >= 3
    /\ \E i \in LinesOf("error") : out[i].seq = 0

\* C3: at most one request is in flight, it is the one issued last, and
\* none is in flight when the next one is about to be issued.
C3_OneInFlight ==
    /\ Cardinality(inflight) <= 1
    /\ \A n \in inflight : Len(issued) > 0 /\ n = issued[Len(issued)]
    /\ pc = "send" => inflight = {}

\* The third request is in flight, the first two have resolved.
C3_Witness ==
    /\ pc = "wait"
    /\ inflight = {2}
    /\ Len(issued) = 3

\* Attempt n has just resolved with an error.
FailedAt(n) ==
    /\ pc = "for"
    /\ idx = n
    /\ Len(out) > 0
    /\ out[Len(out)].kind = "error"
    /\ out[Len(out)].seq = n

C5_NoDataWhenNothingTransmitted ==
    \A i \in LinesOf("stats") :
        out[i].transmitted = 0 => out[i].loss.class = "nodata"

\* The summary is what main printed last: nothing but the summary's lines
\* follows its header, and only the run's lines come before it.
SummaryIsLast ==
    \E h \in LinesOf("header") :
        \A j \in 1..Len(out) :
            /\ j < h => out[j].kind \in {"ping", "reply", "error"}
            /\ j > h => out[j].kind \in {"stats", "rtt"}

\* C6: once the setup has succeeded, a run that is not interrupted reaches
\* the end; there exactly count attempts were issued and recorded and the
\* summary was printed once, last; nothing is issued or printed after it.
C6_BoundedRunFinalizes ==
    /\ (pc = "for" /\ next = 0) ~> (pc \in {"done", "killed"})
    /\ [](pc = "done" => /\ Len(issued) = count
                         /\ answer.transmitted = count
                         /\ Summaries = 1
                         /\ SummaryIsLast)
    /\ [](Summaries <= 1)
    /\ [][Summaries = 1 => (issued' = issued /\ out' = out)]_vars

\* The default run of five attempts has finished.
C6_Witness ==
    /\ pc = "done"
    /\ count = DefaultCount
    /\ Len(issued) = DefaultCount
    /\ Summaries = 1

\* C7: after an interrupt that arrives while main waits for a tick or for a
\* reply, the accumulator satisfies its invariants and the summary has been
\* printed or main can still go on to print it.
C7_InterruptStillSummarises ==
    KilledWhileRunning =>
        /\ answer.received <= answer.transmitted
        /\ Len(answer.durations) = answer.received
        /\ (Summaries = 1 \/ ENABLED Main)

\* C8: with the count option absent the run does not come to its end by
\* itself.
C8_UnboundedWhenCountAbsent ==
    countArg = NotSpecified => pc \notin {"output", "done"}

\* C9: the finished run printed the counts line once, and the round-trip
\* line if and only if more than one reply was received.
C9_LatencyLineGate ==
    pc = "done" =>
        /\ Cardinality(LinesOf("stats")) = 1
        /\ Cardinality(LinesOf("rtt")) <= 1
        /\ (LinesOf("rtt") # {} <=> answer.received > 1)

\* A finished run with exactly one reply among several attempts: no
\* round-trip line.
C9_Witness ==
    /\ pc = "done"
    /\ answer.received = 1
    /\ answer.transmitted >= 2
    /\ LinesOf("rtt") = {}
    /\ LinesOf("stats") # {}

\* C10: with transmitted > 0 the loss printed is (transmitted - received) /
\* transmitted * 100 to the nearest hundredth: 100.00 when nothing was
\* received, 0.00 when all was, 33.33 for 2 of 3.
C10_LossPercent ==
    \A i \in LinesOf("stats") :
        LET t == out[i].transmitted
            r == out[i].received
            h == out[i].loss.hundredths
            e == h * t - (t - r) * 10000
        IN  t > 0 =>
              /\ t = answer.transmitted /\ r = answer.received
              /\ out[i].loss.class = "finite"
              /\ 2 * e <= t /\ 2 * (0 - e) <= t
              /\ (r = 0 => h = 10000)
              /\ (r = t => h = 0)
              /\ (t = 3 /\ r = 2 => h = 3333)

\* Three transmitted, two received: 33.33.
C10_Witness ==
    \E i \in LinesOf("stats") :
        /\ out[i].transmitted = 3
        /\ out[i].received = 2
        /\ out[i].loss.hundredths = 3333

\* The line printed by this step, if it is the line of a resolved attempt.
AttemptResolves ==
    /\ Len(out') = Len(out) + 1
    /\ out'[Len(out')].kind \in {"reply", "error"}

\* C11: recording an outcome adds 1 to transmitted; a success also adds 1 to
\* received and appends its elapsed time as the last latency; a failure
\* leaves received and the latencies alone; the host never changes; and the
\* accumulator changes in no other step.
C11_UpdateFrame ==
    [][/\ AttemptResolves <=> answer' # answer
       /\ AttemptResolves =>
            /\ answer'.transmitted = answer.transmitted + 1
            /\ answer'.host = answer.host
            /\ IF out'[Len(out')].kind = "reply"
               THEN /\ answer'.received = answer.received + 1
                    /\ answer'.durations =
                         Append(answer.durations, out'[Len(out')].dur)
               ELSE /\ answer'.received = answer.received
                    /\ answer'.durations = answer.durations]_vars

\* A reply has just been recorded after an earlier failure.
C11_Witness ==
    /\ pc = "for"
    /\ Len(out) > 0
    /\ out[Len(out)].kind = "reply"
    /\ answer.received = 1
    /\ answer.transmitted = 2

IsPrefix(s, t) == Len(s) <= Len(t) /\ s = SubSeq(t, 1, Len(s))

\* The reply lines printed so far, in order.
Replies == SelectSeq(out, LAMBDA l : l.kind = "reply")

\* C12: every step leaves the old latency log as a prefix of the new one
\* and transmitted and received no smaller; the log is the elapsed times of
\* the replies in the order of their sequence numbers.
C12_AppendOnly ==
    /\ [][/\ IsPrefix(answer.durations, answer'.durations)
          /\ answer'.transmitted >= answer.transmitted
          /\ answer'.received >= answer.received]_vars
    /\ [](/\ answer.durations = [i \in 1..Len(Replies) |-> Replies[i].dur]
          /\ \A i, j \in 1..Len(Replies) :
                i < j => Replies[i].seq < Replies[j].seq)

\* Two different latencies recorded, with a failed attempt between them.
C12_Witness ==
    /\ Len(answer.durations) = 2
    /\ answer.durations[1] # answer.durations[2]
    /\ answer.transmitted = 3
    /\ \E i \in LinesOf("error") : out[i].seq = 1

\* The step after pc in the setup.
SetupSuccessor(p) ==
    CASE p = "lookup" -> "interval"
      [] p = "interval" -> "client"
      [] p = "client" -> "banner"
      [] OTHER -> p

\* C15: a setup step that does not succeed ends the run in a panic, and a
\* panicked run has awaited no tick, issued no request, recorded nothing
\* and printed no line of the summary.
C15_SetupFailureAborts ==
    /\ [][(pc \in {"lookup", "interval", "client"})
          => (pc' \in {SetupSuccessor(pc), "panicked", "killed"})]_vars
    /\ [](pc = "panicked" =>
            /\ ticks = 0
            /\ issued = <<>>
            /\ answer.transmitted = 0
            /\ LinesOf("header") = {}
            /\ LinesOf("stats") = {}
            /\ LinesOf("rtt") = {})

\* The address resolved (to an IPv6 one) and a later setup step failed.
C15_Witness ==
    /\ pc = "panicked"
    /\ ipv6

\* The per-attempt lines printed so far.
AttemptLines == LinesOf("reply") \cup LinesOf("error")

\* C16: one request is issued per tick awaited (the ticks run one ahead
\* only between the tick and the send, or when the run was interrupted
\* there), and when the tick of an attempt is awaited every earlier attempt
\* has resolved, been recorded and had its line printed.
C16_OneAttemptPerTick ==
    /\ Len(issued) <= ticks
    /\ ticks <= Len(issued) + 1
    /\ pc \notin {"send", "killed"} => ticks = Len(issued)
    /\ pc = "tick" =>
         /\ inflight = {}
         /\ ticks = idx
         /\ answer.transmitted = idx
         /\ Cardinality(AttemptLines) = idx
         /\ \A n \in 0..(idx - 1) : \E i \in AttemptLines : out[i].seq = n

\* The tick of the third attempt is awaited; the first two are recorded.
C16_Witness ==
    /\ pc = "tick"
    /\ idx = 2
    /\ answer.transmitted = 2

\* C17: an attempt that timed out took the whole configured timeout, so the
\* run is over by then: no attempt is issued after one that timed out.
C17_TimeoutBoundsRun ==
    \A i \in LinesOf("error") :
        out[i].reason = "timeout" => Len(issued) <= out[i].seq + 1

\* The sequence number the loop hands out next: the loop variable while
\* its request is still to be sent, else the start of the remaining range.
PendingSeq == IF Len(issued) < next THEN idx ELSE next

\* C18: with no request in flight, transmitted is the number of requests
\* issued and the next sequence number; a finished run has transmitted =
\* count and received = the number of replies.
C18_InStep ==
    /\ inflight = {} =>
         /\ answer.transmitted = Len(issued)
         /\ answer.transmitted = PendingSeq
    /\ pc = "done" =>
         /\ answer.transmitted = count
         /\ answer.received = Cardinality(LinesOf("reply"))

\* A finished run of four attempts, two of them answered.
C18_Witness ==
    /\ pc = "done"
    /\ count = 4
    /\ answer.transmitted = 4
    /\ answer.received = 2

\* C14: each of min, max, avg and mdev is None when the log is empty and a
\* value when it is not; none of them fails on the empty log (avg's
\* division is checked_div, mdev goes through avg).
C14_AbsentIffEmpty ==
    /\ Min(answer).some <=> answer.received >= 1
    /\ Max(answer).some <=> answer.received >= 1
    /\ Avg(answer).some <=> answer.received >= 1
    /\ Mdev(answer).some <=> answer.received >= 1

\* The summary of a run in which every attempt failed: the four are None.
C14_Witness ==
    /\ pc = "done"
    /\ answer.transmitted > 0
    /\ answer.received = 0
    /\ ~Min(answer).some /\ ~Max(answer).some
    /\ ~Avg(answer).some /\ ~Mdev(answer).some

\* C19: answer.output() never panics: received never exceeds transmitted,
\* so the subtraction does not underflow; where the gate lets the latency
\* line through the log is not empty and min, avg, max and mdev are values;
\* the summary's step ends main normally and no panic is ever printed.
C19_SummaryNeverPanics ==
    /\ [](answer.received <= answer.transmitted)
    /\ [](pc = "output" /\ RttGate(answer) =>
            /\ answer.durations # <<>>
            /\ Min(answer).some /\ Avg(answer).some
            /\ Max(answer).some /\ Mdev(answer).some)
    /\ [][pc = "output" => pc' \in {"done", "killed"}]_vars
    /\ [](LinesOf("panic") = {})

\* A finished run that lost a reply and printed the latency line.
C19_Witness ==
    /\ pc = "done"
    /\ answer.transmitted > answer.received
    /\ LinesOf("rtt") # {}

\* A number as "{:.3}" prints it, given in thousandths.
Printed(thousandths) == [class |-> "finite", thousandths |-> thousandths]

\* The sum of the squares of the latencies, in square nanoseconds.
RECURSIVE SumOfSquares(_)
SumOfSquares(durations) ==
    IF durations = <<>>
    THEN <<>>
    ELSE BAdd(BMul(BFromInt(Head(durations)), BFromInt(Head(durations))),
              SumOfSquares(Tail(durations)))

\* n^2 times the population variance of the latencies, for n the length of
\* the log: n * sum(x^2) - sum(x)^2, in square nanoseconds.
Spread(durations) ==
    LET sum == BFromInt(DurationSum(durations))
    IN  BSub(BMulSmall(SumOfSquares(durations), Len(durations)), BMul(sum, sum))

\* Whether p thousandths of a millisecond is the square root of the
\* population variance of the latencies rounded to the thousandth:
\* (2p - 1)^2 <= 4 * variance <= (2p + 1)^2 in square microseconds.
IsPopulationDeviation(p, durations) ==
    LET n == Len(durations)
        scale == BMulSmall(BFromInt(n * n), NanosPerMilli)
        spread == BMulSmall(Spread(durations), 4)
        lo == BMul(BMul(BFromInt(2 * p - 1), BFromInt(2 * p - 1)), scale)
        hi == BMul(BMul(BFromInt(2 * p + 1), BFromInt(2 * p + 1)), scale)
    IN  /\ p = 0 \/ BCmp(lo, spread) <= 0
        /\ BCmp(spread, hi) <= 0

\* The three decimals of the four statistics of the log.
Statistics(a) ==
    [min |-> FFormat3(Min(a).val), avg |-> FFormat3(Avg(a).val),
     max |-> FFormat3(Max(a).val), mdev |-> FFormat3(Mdev(a).val)]

\* C13: for a log that is not empty min is the smallest and max the
\* largest latency, avg is the sum of the latencies over their number and
\* mdev the square root of the population variance, in milliseconds (to
\* the three decimals printed); 10, 20 and 30 ms give 10, 20, 30 and 8.165,
\* and the run 15 ms, timeout, 25 ms gives transmitted 3, received 2 and
\* 15.000, 20.000, 25.000 and 5.000.
C13_Statistics ==
    /\ answer.durations # <<>> =>
          LET log == answer.durations
              s == Statistics(answer)
          IN  /\ \E i \in 1..Len(log) :
                    /\ \A j \in 1..Len(log) : log[i] <= log[j]
                    /\ s.min = Printed(RoundHalfEven(log[i], 1000))
              /\ \E i \in 1..Len(log) :
                    /\ \A j \in 1..Len(log) : log[i] >= log[j]
                    /\ s.max = Printed(RoundHalfEven(log[i], 1000))
              /\ s.avg = Printed(RoundHalfEven(DurationSum(log), 1000 * Len(log)))
              /\ s.mdev.class = "finite"
              /\ IsPopulationDeviation(s.mdev.thousandths, log)
    /\ answer.durations = <<10 * NanosPerMilli, 20 * NanosPerMilli, 30 * NanosPerMilli>> =>
          Statistics(answer) = [min |-> Printed(10000), avg |-> Printed(20000),
                                max |-> Printed(30000), mdev |-> Printed(8165)]
    /\ out = OutAfter(<<15 * NanosPerMilli, 0, 25 * NanosPerMilli>>) =>
          /\ answer.transmitted = 3
          /\ answer.received = 2
          /\ Statistics(answer) = [min |-> Printed(15000), avg |-> Printed(20000),
                                   max |-> Printed(25000), mdev |-> Printed(5000)]

\* Whether all the latencies of the log are the same.
AllEqual(durations) ==
    \A i, j \in 1..Len(durations) : durations[i] = durations[j]

\* C20: for a log that is not empty the quantity under the square root of
\* mdev is not negative, so mdev is a number at or above zero, and zero
\* when all the latencies are the same; and min <= avg <= max.
C20_MdevIsReal ==
    answer.durations # <<>> =>
        LET avg == Avg(answer).val
            tmdev == Tmdev(answer, avg)
            mdev == Mdev(answer).val
        IN  /\ ~(tmdev.neg /\ tmdev.m # <<>>)
            /\ ~mdev.nan /\ ~mdev.neg
            /\ AllEqual(answer.durations) => FFormat3(mdev) = Printed(0)
            /\ FLe(Min(answer).val, avg)
            /\ FLe(avg, Max(answer).val)

====
